---- MODULE Spec2Model ----
(***************************************************************************)
(* Model of neutcurve: HillCurve (src/neutcurve/hillcurve.py) and          *)
(* CurveFits (src/neutcurve/curvefits.py).                                 *)
(*                                                                         *)
(* Numbers.  Concentrations and the midpoint are positive integers (an     *)
(* arbitrary concentration unit).  top, bottom and fraction infectivity    *)
(* are integers counting quarters, so 0.5 is Half and 1 is One.  The slope *)
(* is a pair <<n, d>> standing for n/d with n in {-1, 1}, so that the      *)
(* exponent 1.0 / slope of ic50 is the integer n*d and every value ic50    *)
(* computes is an exact (dyadic) rational.  A float is a pair <<n, d>>     *)
(* with d >= 0; d = 0 stands for +inf (n > 0) and -inf (n < 0), which is   *)
(* what numpy's float64 division by zero and power yield.                  *)
(***************************************************************************)
EXTENDS Integers, Sequences, FiniteSets, TLC

VARIABLES
    hc,          \* the HillCurve object: cs, fs, top, bottom, midpoint, slope
    hret,        \* outcome of the last call on hc
    data,        \* the data argument of CurveFits.__init__ (sequence of rows)
    cf,          \* the CurveFits object
    cret,        \* outcome of the last call on cf
    nfit         \* (history) per key, number of HillCurve objects getCurve built

vars == <<hc, hret, data, cf, cret, nfit>>

hvars == <<hc, hret>>
cvars == <<data, cf, cret, nfit>>

-----------------------------------------------------------------------------
(* Bounds of the model *)

MaxConc == 3        \* concentrations are 1..MaxConc
MaxPoints == 3      \* a curve is measured at MinPoints..MaxPoints points
MaxMidpoint == 3    \* a fitted midpoint is in 1..MaxMidpoint
MaxPrecision == 3   \* ic50_str is asked for 1..MaxPrecision significant digits
MaxRows == 3        \* data has at most MaxRows rows
MaxHillPoints == 4  \* HillCurve is given 1..MaxHillPoints points
MaxHillConc == 2    \* HillCurve is given concentrations 0..MaxHillConc

(* Program constants, in quarters *)
Half == 2           \* the 0.5 of ic50
One == 4            \* top = 1
MinPoints == 2      \* the parameters every fit has: midpoint and slope

-----------------------------------------------------------------------------
(* Floats as exact rationals <<n, d>>, d >= 0 *)

RECURSIVE IPow(_, _)
IPow(b, e) == IF e = 0 THEN 1 ELSE b * IPow(b, e - 1)

Abs(i) == IF i < 0 THEN -i ELSE i
Sgn(i) == IF i < 0 THEN -1 ELSE IF i > 0 THEN 1 ELSE 0

Num(c) == <<c, 1>>
FLe(x, y) == x[1] * y[2] <= y[1] * x[2]
FLt(x, y) == x[1] * y[2] < y[1] * x[2]
FEq(x, y) == x[1] * y[2] = y[1] * x[2]

\* a / b on float64: b = 0 gives +-inf by the sign of a
FDiv(a, b) ==
    IF b = 0 THEN <<Sgn(a), 0>>
    ELSE IF b < 0 THEN <<-a, -b>> ELSE <<a, b>>

\* 1 / x on float64: 1/0 is inf, 1/inf is 0
FInv(x) ==
    IF x[1] = 0 THEN <<1, 0>>
    ELSE IF x[2] = 0 THEN <<0, 1>>
    ELSE IF x[1] < 0 THEN <<-x[2], -x[1]>> ELSE <<x[2], x[1]>>

\* x ** e for an integer e
FPow(x, e) ==
    IF e >= 0 THEN <<IPow(x[1], e), IPow(x[2], e)>>
    ELSE FInv(<<IPow(x[1], -e), IPow(x[2], -e)>>)

FMul(m, x) == <<m * x[1], x[2]>>

\* float('nan'), numpy.nan
NaN == <<0, 0>>
IsNaN(x) == x = NaN

-----------------------------------------------------------------------------
(* Outcomes of a call *)

Last(s) == s[Len(s)]

Returned(v) == [tag |-> "return", val |-> v]
ReturnedNone == [tag |-> "None"]
Raised(e, m) == [tag |-> e, msg |-> m]
NoCall == [tag |-> "nocall"]

IsValue(r) == r.tag = "return"
IsRaise(r) == r.tag \in {"ValueError", "RuntimeError", "TypeError", "AssertionError"}

-----------------------------------------------------------------------------
(* HillCurve.ic50, ic50_bound, ic50_str *)

\* mutant of AlgebraicIC50: the IC50 is taken to be the midpoint
AlgebraicIC50_midpoint(o) == Num(o.midpoint)

\* m * ((t - 0.5) / (0.5 - b)) ** (1.0 / s)
AlgebraicIC50(o) ==
    FMul(o.midpoint,
         FPow(FDiv(o.top - Half, Half - o.bottom), o.slope[1] * o.slope[2]))

\* mutant of ic50_branch: the algebraic IC50 is returned without the range
\* test of line 368
ic50_branch_unclamped(o) ==
    IF o.top < Half /\ o.bottom < Half
    THEN [early |-> FALSE, bound |-> "bottom"]
    ELSE IF o.top >= Half /\ o.bottom >= Half
    THEN [early |-> FALSE, bound |-> "upper"]
    ELSE [early |-> TRUE, val |-> AlgebraicIC50(o)]

\* the first if / elif / else of ic50: either an early return or a bound
ic50_branch(o) ==
    IF o.top < Half /\ o.bottom < Half
    THEN [early |-> FALSE, bound |-> "bottom"]
    ELSE IF o.top >= Half /\ o.bottom >= Half
    THEN [early |-> FALSE, bound |-> "upper"]
    ELSE LET v == AlgebraicIC50(o)
         IN  IF FLe(Num(o.cs[1]), v) /\ FLe(v, Num(Last(o.cs)))
             THEN [early |-> TRUE, val |-> v]
             ELSE IF FLt(v, Num(o.cs[1]))
             THEN [early |-> FALSE, bound |-> "bottom"]
             ELSE [early |-> FALSE, bound |-> "upper"]

ic50(o, method) ==
    LET br == ic50_branch(o)
    IN  IF br.early THEN Returned(br.val)
        ELSE IF method = "bound"
        THEN IF br.bound = "upper" THEN Returned(Num(Last(o.cs)))
             ELSE IF br.bound = "lower" THEN Returned(Num(o.cs[1]))
             ELSE Raised("ValueError", "invalid bound")
        ELSE IF method # "interpolate"
        THEN Raised("ValueError", "invalid method")
        ELSE ReturnedNone

ic50_bound(o) ==
    IF ic50(o, "interpolate").tag # "None"
    THEN Returned("interpolated")
    ELSE LET r == ic50(o, "bound")
         IN  IF IsRaise(r) THEN r
             ELSE IF FEq(r.val, Num(o.cs[1])) THEN Returned("lower")
             ELSE IF FEq(r.val, Num(Last(o.cs))) THEN Returned("upper")
             ELSE Raised("RuntimeError", "ic50 is not upper or lower bound")

-----------------------------------------------------------------------------
(* "{:.{precision}g}".format(x) for a finite x > 0: round x half-to-even to *)
(* precision significant digits, print in fixed notation when the decimal   *)
(* exponent X has -4 <= X < precision and in scientific notation otherwise, *)
(* and drop trailing zeros.                                                 *)

DigitChar(d) ==
    CASE d = 0 -> "0" [] d = 1 -> "1" [] d = 2 -> "2" [] d = 3 -> "3"
      [] d = 4 -> "4" [] d = 5 -> "5" [] d = 6 -> "6" [] d = 7 -> "7"
      [] d = 8 -> "8" [] d = 9 -> "9"

\* the n decimal digits of q, most significant first
RECURSIVE Digits(_, _)
Digits(q, n) == IF n = 0 THEN <<>> ELSE Append(Digits(q \div 10, n - 1), q % 10)

RECURSIVE StripZeros(_)
StripZeros(ds) ==
    IF ds # <<>> /\ Last(ds) = 0 THEN StripZeros(SubSeq(ds, 1, Len(ds) - 1))
    ELSE ds

RECURSIVE DigitStr(_)
DigitStr(ds) == IF ds = <<>> THEN "" ELSE DigitChar(Head(ds)) \o DigitStr(Tail(ds))

RECURSIVE Zeros(_)
Zeros(n) == IF n <= 0 THEN <<>> ELSE <<0>> \o Zeros(n - 1)

\* 10 ** k as a float
P10(k) == IF k >= 0 THEN <<IPow(10, k), 1>> ELSE <<1, IPow(10, -k)>>

\* the X with 10**X <= x < 10**(X+1)
Exp10(x) == CHOOSE X \in -6..6 : FLe(P10(X), x) /\ FLt(x, P10(X + 1))

RoundHalfEven(x) ==
    LET q == x[1] \div x[2]
        r == x[1] % x[2]
    IN  IF 2 * r > x[2] THEN q + 1
        ELSE IF 2 * r = x[2] THEN q + (q % 2)
        ELSE q

FormatG(x, precision) ==
    LET X0 == Exp10(x)
        s0 == P10(precision - 1 - X0)
        q0 == RoundHalfEven(<<x[1] * s0[1], x[2] * s0[2]>>)
        carry == q0 = IPow(10, precision)
        q == IF carry THEN IPow(10, precision - 1) ELSE q0
        X == IF carry THEN X0 + 1 ELSE X0
        ds == Digits(q, precision)
        frac(f) == IF StripZeros(f) = <<>> THEN "" ELSE "." \o DigitStr(StripZeros(f))
    IN  IF X < -4 \/ X >= precision
        THEN DigitStr(<<Head(ds)>>) \o frac(Tail(ds)) \o "e"
             \o (IF X < 0 THEN "-" ELSE "+") \o DigitStr(Digits(Abs(X), 2))
        ELSE IF X >= 0
        THEN DigitStr(SubSeq(ds, 1, X + 1)) \o frac(SubSeq(ds, X + 2, precision))
        ELSE "0" \o frac(Zeros(-X - 1) \o ds)

Prefix(b) ==
    CASE b = "interpolated" -> ""
      [] b = "lower" -> "<"
      [] b = "upper" -> ">"

ic50_str(o, precision) ==
    LET v == ic50(o, "bound")
        b == ic50_bound(o)
    IN  IF IsRaise(v) THEN v
        ELSE IF IsRaise(b) THEN b
        ELSE Returned(Prefix(b.val) \o FormatG(v.val, precision))

-----------------------------------------------------------------------------
(* HillCurve.__init__(cs, fs, fs_stderr, fixbottom, fixtop).  cs are        *)
(* integers, fs and fs_stderr floats.  fs_stderr is None or a sequence, and *)
(* fixbottom / fixtop are False (Free) or a number in quarters (Fixed(v)).  *)
(* scipy.optimize.curve_fit is outside the repository: fit is its outcome,  *)
(* either a failure or the values it returns for the free parameters.       *)
(* fitlogc only selects what curve_fit is given and has no other effect.    *)

Free == [fixed |-> FALSE, val |-> 0]
Fixed(v) == [fixed |-> TRUE, val |-> v]

NoStderr == [none |-> TRUE, vals |-> <<>>]
Stderr(vals) == [none |-> FALSE, vals |-> vals]

FSub(x, y) == <<x[1] * y[2] - y[1] * x[2], x[2] * y[2]>>
FHalve(x) == <<x[1], 2 * x[2]>>
FMaxSeq(xs) == xs[CHOOSE i \in DOMAIN xs : \A j \in DOMAIN xs : FLe(xs[j], xs[i])]
FMinSeq(xs) == xs[CHOOSE i \in DOMAIN xs : \A j \in DOMAIN xs : FLe(xs[i], xs[j])]

\* cs.argsort(): the indices of cs in ascending order of cs (ties by index)
argsort(cs) ==
    SortSeq([i \in DOMAIN cs |-> i],
            LAMBDA i, j : cs[i] < cs[j] \/ (cs[i] = cs[j] /\ i < j))

Permute(xs, perm) == [i \in DOMAIN perm |-> xs[perm[i]]]

\* lines 252-256
slope_guess(fs) == IF FLe(Last(fs), fs[1]) THEN <<3, 2>> ELSE <<-3, 2>>

\* lines 258-267
top_guess(fs, fixtop) ==
    IF ~fixtop.fixed
    THEN IF slope_guess(fs)[1] > 0 THEN FMaxSeq(fs) ELSE FMinSeq(fs)
    ELSE Num(fixtop.val)

\* lines 268-276
bottom_guess(fs, fixbottom) ==
    IF ~fixbottom.fixed
    THEN IF slope_guess(fs)[1] > 0 THEN FMinSeq(fs) ELSE FMaxSeq(fs)
    ELSE Num(fixbottom.val)

\* lines 278-295
midpoint_guess(cs, fs, top, bottom) ==
    LET midval == FHalve(FSub(top, bottom))
        above(i) == FLt(midval, fs[i])
    IN  IF \A i \in DOMAIN fs : above(i)
        THEN IF slope_guess(fs)[1] > 0 THEN Num(Last(cs)) ELSE Num(cs[1])
        ELSE IF \A i \in DOMAIN fs : ~above(i)
        THEN IF slope_guess(fs)[1] > 0 THEN Num(cs[1]) ELSE Num(Last(cs))
        ELSE LET i == CHOOSE k \in 1..(Len(fs) - 1) :
                          /\ above(k) # above(k + 1)
                          /\ \A l \in 1..(k - 1) : above(l) = above(l + 1)
             IN  <<cs[i] + cs[i + 1], 2>>

\* mutant of func_vars: all four parameters are always fitted
func_vars_all(fixbottom, fixtop) == <<"midpoint", "slope", "bottom", "top">>

\* lines 304-322
func_vars(fixbottom, fixtop) ==
    IF ~fixtop.fixed /\ ~fixbottom.fixed
    THEN <<"midpoint", "slope", "bottom", "top">>
    ELSE IF ~fixtop.fixed THEN <<"midpoint", "slope", "top">>
    ELSE IF ~fixbottom.fixed THEN <<"midpoint", "slope", "bottom">>
    ELSE <<"midpoint", "slope">>

FitFailure == [ok |-> FALSE, midpoint |-> 0, slope |-> <<1, 1>>, bottom |-> 0,
               top |-> 0]
FitResult(m, s, b, t) ==
    [ok |-> TRUE, midpoint |-> m, slope |-> s, bottom |-> b, top |-> t]

\* mutant of fit_failed: a failure of curve_fit goes unnoticed
fit_failed_never(fit) == FALSE

\* lines 326-332: curve_fit raises RuntimeError when it finds no optimum
fit_failed(fit) == ~fit.ok

\* lines 334-335: setattr(self, varname, popt[i]) for the free parameters
set_fitted(guess, fvars, popt) ==
    [name \in DOMAIN guess |->
        IF \E i \in DOMAIN fvars : fvars[i] = name
        THEN popt[CHOOSE i \in DOMAIN fvars : fvars[i] = name]
        ELSE guess[name]]

HillCurve(cs_in, fs_in, fs_stderr, fixbottom, fixtop, fit) ==
    LET perm == argsort(cs_in)
        cs == Permute(cs_in, perm)
        fs == Permute(fs_in, perm)
        se == IF fs_stderr.none THEN NoStderr
              ELSE Stderr(Permute(fs_stderr.vals, perm))
        fvars == func_vars(fixbottom, fixtop)
        top == top_guess(fs, fixtop)
        bottom == bottom_guess(fs, fixbottom)
        \* the attributes before curve_fit: fixed values and guesses
        guess == [midpoint |-> midpoint_guess(cs, fs, top, bottom),
                  slope |-> slope_guess(fs),
                  bottom |-> IF fixbottom.fixed THEN fixbottom.val ELSE bottom,
                  top |-> IF fixtop.fixed THEN fixtop.val ELSE top]
        popt == [i \in DOMAIN fvars |-> fit[fvars[i]]]
        fitted == set_fitted(guess, fvars, popt)
    IN  IF \E i \in DOMAIN cs : cs[i] <= 0
        THEN [tag |-> "raise",
              exc |-> Raised("ValueError", "concentrations in cs must all be > 0")]
        ELSE IF Len(cs) < Len(fvars)
        THEN [tag |-> "raise",
              exc |-> Raised("TypeError", "Improper input: N must not exceed M")]
        ELSE IF fit_failed(fit)
        THEN [tag |-> "raise",
              exc |-> Raised("RuntimeError", "Optimal parameters not found")]
        ELSE [tag |-> "ok",
              func_vars |-> fvars,
              initguess |-> [i \in DOMAIN fvars |-> guess[fvars[i]]],
              obj |-> [cs |-> cs, fs |-> fs, fs_stderr |-> se,
                       bottom |-> fitted.bottom, top |-> fitted.top,
                       midpoint |-> fitted.midpoint, slope |-> fitted.slope]]

-----------------------------------------------------------------------------
(* HillCurve.fracinfectivity, HillCurve.dataframe and concentrationRange.   *)
(* The concentrations argument is [kind |-> "auto"], [kind |-> "measured"]  *)
(* or [kind |-> "list", vals |-> a list of numbers].                        *)

FAdd(x, y) ==
    IF x[2] = 0 THEN x ELSE IF y[2] = 0 THEN y
    ELSE <<x[1] * y[2] + y[1] * x[2], x[2] * y[2]>>

\* x / y for a float x and a float y > 0, x / inf = 0
FQuot(x, y) == <<x[1] * y[2], x[2] * y[1]>>

\* b + (t - b) / (1 + (c / m)**s) for a float c >= 0 and an integer slope s;
\* the result is in quarters like b and t
evaluate(c, m, s, b, t) ==
    FAdd(Num(b),
         FQuot(Num(t - b), FAdd(Num(1), FPow(FQuot(c, Num(m)), s[1]))))

fracinfectivity(o, c) == evaluate(c, o.midpoint, o.slope, o.bottom, o.top)

\* scipy.logspace over the range extended by 0.1 of its log on both sides:
\* npoints floats, ascending, the first below bottom and the last above top.
\* The model keeps three of them: the first, one inside the range and the
\* last, none of them a measured concentration.
concentrationRange(bottom, top) ==
    IF top <= bottom
    THEN [tag |-> "raise",
          exc |-> Raised("ValueError", "bottom must be less than top")]
    ELSE IF bottom <= 0
    THEN [tag |-> "raise",
          exc |-> Raised("ValueError", "bottom must be greater than zero")]
    ELSE [tag |-> "ok",
          val |-> << <<bottom, 2>>, <<2 * bottom + 1, 2>>, <<2 * top, 1>> >>]

\* sort_values on a frame this short is an insertion sort, which is stable
RECURSIVE sort_values(_)
sort_values(rows) ==
    IF rows = <<>> THEN <<>>
    ELSE LET init == sort_values(SubSeq(rows, 1, Len(rows) - 1))
             x == Last(rows)
             k == Cardinality({i \in DOMAIN init :
                                  FLe(init[i].concentration, x.concentration)})
         IN  SubSeq(init, 1, k) \o <<x>> \o SubSeq(init, k + 1, Len(init))

\* the pandas DataFrame of dataframe: its columns and its rows
DataFrame(rows) ==
    [columns |-> <<"concentration", "measurement", "fit", "stderr">>, rows |-> rows]

\* lines 532-562
dataframe(o, concentrations) ==
    LET auto == concentrationRange(o.cs[1], Last(o.cs))
        extra == IF concentrations.kind = "auto" THEN auto.val
                 ELSE IF concentrations.kind = "measured" THEN <<>>
                 ELSE [i \in DOMAIN concentrations.vals |->
                          Num(concentrations.vals[i])]
        all == [i \in DOMAIN o.cs |-> Num(o.cs[i])] \o extra
        n == Len(o.fs)
        rows == [i \in DOMAIN all |->
                    [concentration |-> all[i],
                     measurement |-> IF i <= n THEN o.fs[i] ELSE NaN,
                     fit |-> fracinfectivity(o, all[i]),
                     stderr |-> IF o.fs_stderr.none \/ i > n THEN NaN
                                ELSE o.fs_stderr.vals[i]]]
    IN  IF concentrations.kind = "auto" /\ auto.tag = "raise" THEN auto.exc
        ELSE Returned(DataFrame(sort_values(rows)))

-----------------------------------------------------------------------------
(* CurveFits.__init__.  data is a sequence of rows                          *)
(*   [serum, virus, replicate, concentration, fracinf]                      *)
(* under the default column names; the replicate column of data holds raw   *)
(* values (a number or a string) that astype(str) turns into strings.  A    *)
(* row of df has the further columns stderr and count, NaN where unset.     *)

Range(s) == {s[i] : i \in DOMAIN s}
Column(df, col) == [i \in DOMAIN df |-> df[i][col]]

\* Series.unique(): the distinct values in order of first occurrence
RECURSIVE Unique(_)
Unique(s) ==
    IF s = <<>> THEN <<>>
    ELSE LET u == Unique(SubSeq(s, 1, Len(s) - 1))
         IN  IF Last(s) \in Range(u) THEN u ELSE Append(u, Last(s))

\* str(x) for the raw replicate values of the model
astype_str(rep) ==
    CASE rep = "int:1" -> "1"
      [] rep = "str:1" -> "1"
      [] rep = "str:2" -> "2"
      [] rep = "str:average" -> "average"

\* lines 97-101: df = data[cols] with the replicate column as str
select_cols(d) ==
    [i \in DOMAIN d |->
        [serum |-> d[i].serum, virus |-> d[i].virus,
         replicate |-> astype_str(d[i].replicate),
         concentration |-> d[i].concentration, fracinf |-> d[i].fracinf]]

query_serum(df, serum) == SelectSeq(df, LAMBDA r : r.serum = serum)
query_virus(df, virus) == SelectSeq(df, LAMBDA r : r.virus = virus)
query_replicate(df, rep) == SelectSeq(df, LAMBDA r : r.replicate = rep)

\* the sorted list of concentrations of one replicate (lines 120-125)
conc1(virus_data, rep1) ==
    SortSeq(Column(query_replicate(virus_data, rep1), "concentration"),
            LAMBDA a, b : a < b)

\* lines 130-135: the list compared with conc1; the query names rep1
conc2(virus_data, rep1, rep2) ==
    SortSeq(Column(query_replicate(virus_data, rep1), "concentration"),
            LAMBDA a, b : a < b)

NoError == [tag |-> "ok"]

\* lines 129-139: the first later replicate whose concentrations differ
rep2_error(virus_data, serum, virus, reps, i) ==
    LET bad == {j \in (i + 1)..Len(reps) :
                    conc1(virus_data, reps[i]) # conc2(virus_data, reps[i], reps[j])}
    IN  IF bad = {} THEN NoError
        ELSE [tag |-> "ValueError", msg |-> "have different concentrations",
              serum |-> serum, virus |-> virus, rep1 |-> reps[i],
              rep2 |-> reps[CHOOSE j \in bad : \A k \in bad : j <= k]]

\* mutant of rep1_indices: the duplicate check skips the last replicate
rep1_indices_not_last(reps) == 1..(Len(reps) - 1)

\* the replicates the loop of line 119 visits
rep1_indices(reps) == 1..Len(reps)

\* lines 119-139, from replicate i on: the first error raised
RECURSIVE reps_error(_, _, _, _, _)
reps_error(virus_data, serum, virus, reps, i) ==
    IF i \notin rep1_indices(reps) THEN NoError
    ELSE LET c == conc1(virus_data, reps[i])
         IN  IF Len(c) # Cardinality(Range(c))
             THEN [tag |-> "ValueError", msg |-> "duplicate concentrations",
                   serum |-> serum, virus |-> virus, rep1 |-> reps[i],
                   rep2 |-> ""]
             ELSE LET e == rep2_error(virus_data, serum, virus, reps, i)
                  IN  IF e.tag # "ok" THEN e
                      ELSE reps_error(virus_data, serum, virus, reps, i + 1)

\* mutant of has_average: only the first replicate is looked at
has_average_first(virus_reps) == virus_reps # <<>> /\ virus_reps[1] = "average"

\* line 114: is a replicate named 'average'
has_average(virus_reps) == "average" \in Range(virus_reps)

\* lines 111-139 for one (serum, virus)
virus_error(df, serum, virus) ==
    LET virus_data == query_virus(query_serum(df, serum), virus)
        virus_reps == Unique(Column(virus_data, "replicate"))
    IN  IF has_average(virus_reps)
        THEN [tag |-> "ValueError", msg |-> "A replicate is named average",
              serum |-> serum, virus |-> virus, rep1 |-> "average", rep2 |-> ""]
        ELSE reps_error(virus_data, serum, virus, virus_reps, 1)

sera_of(df) == Unique(Column(df, "serum"))
viruses_of(df, serum) == Unique(Column(query_serum(df, serum), "virus"))
\* mutant of replicates_of: 'average' is put first
replicates_of_average_first(df, serum, virus) ==
    <<"average">> \o
        Unique(Column(query_virus(query_serum(df, serum), virus), "replicate"))

\* lines 112-118
replicates_of(df, serum, virus) ==
    Unique(Column(query_virus(query_serum(df, serum), virus), "replicate"))
        \o <<"average">>

\* the (serum, virus) pairs in the order the loops of lines 107 and 111 visit
RECURSIVE Flatten(_)
Flatten(ss) == IF ss = <<>> THEN <<>> ELSE Head(ss) \o Flatten(Tail(ss))

cohorts_of(df) ==
    LET sera == sera_of(df)
    IN  Flatten([i \in DOMAIN sera |->
                    LET vs == viruses_of(df, sera[i])
                    IN  [j \in DOMAIN vs |-> <<sera[i], vs[j]>>]])

\* lines 103-139: the first error the loops raise, or NoError
RECURSIVE first_error(_, _, _)
first_error(df, cohorts, k) ==
    IF k > Len(cohorts) THEN NoError
    ELSE LET e == virus_error(df, cohorts[k][1], cohorts[k][2])
         IN  IF e.tag # "ok" THEN e ELSE first_error(df, cohorts, k + 1)

\* pandas sorts the group keys; strings sort alphabetically
Alphabetical == <<"a", "b", "x", "y">>
Rank(str) == CHOOSE i \in DOMAIN Alphabetical : Alphabetical[i] = str

KeyLess(k1, k2) ==
    \/ Rank(k1[1]) < Rank(k2[1])
    \/ k1[1] = k2[1] /\ Rank(k1[2]) < Rank(k2[2])
    \/ k1[1] = k2[1] /\ k1[2] = k2[2] /\ k1[3] < k2[3]

RECURSIVE SortKeys(_)
SortKeys(S) ==
    IF S = {} THEN <<>>
    ELSE LET m == CHOOSE k \in S : \A o \in S : o = k \/ KeyLess(k, o)
         IN  <<m>> \o SortKeys(S \ {m})

RECURSIVE SumSeq(_)
SumSeq(s) == IF s = <<>> THEN 0 ELSE Head(s) + SumSeq(Tail(s))

\* mean of measurements x[i] = <<a_i, 1>>
mean(xs) == <<SumSeq([i \in DOMAIN xs |-> xs[i][1]]), Len(xs)>>

\* sem: the model keeps the square of the standard error of the mean,
\* sum((x - mean)**2) / ((n - 1) * n), which is NaN (0/0) for n = 1
sem(xs) ==
    LET n == Len(xs)
        S == SumSeq([i \in DOMAIN xs |-> xs[i][1]])
    IN  <<SumSeq([i \in DOMAIN xs |-> (n * xs[i][1] - S) * (n * xs[i][1] - S)]),
          n * n * (n - 1) * n>>

\* lines 144-154
avg_df(df) ==
    LET keys == SortKeys({<<df[i].serum, df[i].virus, df[i].concentration>> :
                             i \in DOMAIN df})
        grp(k) == Column(SelectSeq(df, LAMBDA r : r.serum = k[1] /\ r.virus = k[2]
                                        /\ r.concentration = k[3]), "fracinf")
    IN  [i \in DOMAIN keys |->
            [serum |-> keys[i][1], virus |-> keys[i][2],
             concentration |-> keys[i][3], fracinf |-> mean(grp(keys[i])),
             stderr |-> sem(grp(keys[i])), count |-> Num(Len(grp(keys[i]))),
             replicate |-> "average"]]

\* mutant of concat: the average rows replace the rows of df
concat_replace(df, avg) == avg

\* lines 155-158: rows of df get the columns of avg_df, NaN
concat(df, avg) ==
    [i \in DOMAIN df |->
        [serum |-> df[i].serum, virus |-> df[i].virus,
         replicate |-> df[i].replicate, concentration |-> df[i].concentration,
         fracinf |-> df[i].fracinf, stderr |-> NaN, count |-> NaN]] \o avg

None == [tag |-> "None"]

\* CurveFits(data, fixbottom=fixbottom, fixtop=fixtop): the object, or the
\* exception raised
CurveFits(d, fixbottom, fixtop) ==
    LET df == select_cols(d)
        cohorts == cohorts_of(df)
        e == first_error(df, cohorts, 1)
    IN  IF e.tag # "ok" THEN [tag |-> "raise", exc |-> e]
        ELSE [tag |-> "ok",
              obj |-> [state |-> "constructed",
                       fixbottom |-> fixbottom,
                       fixtop |-> fixtop,
                       df |-> concat(df, avg_df(df)),
                       sera |-> sera_of(df),
                       viruses |-> [se \in Range(sera_of(df)) |->
                                       viruses_of(df, se)],
                       replicates |-> [sv \in Range(cohorts) |->
                                          replicates_of(df, sv[1], sv[2])],
                       hillcurves |-> <<>>,
                       fitparams |-> None]]

-----------------------------------------------------------------------------
(* CurveFits.getCurve and CurveFits.fitParams.  A cache entry is a          *)
(* reference to a HillCurve object: id names the object (the key it was     *)
(* built for and how many objects were built for that key), obj is its      *)
(* state.  Each operator returns the manager after the call and the         *)
(* outcome of the call; fit is what curve_fit does if the call reaches it.  *)

DefaultPrecision == 3

\* mutant of cached: the cache is never consulted
cached_never(self, key) == FALSE

\* line 181: key in self._hillcurves
cached(self, key) == key \in DOMAIN self.hillcurves

\* lines 191-193
idata_of(self, serum, virus, replicate) ==
    SelectSeq(self.df, LAMBDA r : r.serum = serum /\ r.virus = virus
                                    /\ r.replicate = replicate)

\* the ValueError of lines 183, 185 and 188; its message names the bad value
InvalidKey(m, bad) == [tag |-> "ValueError", msg |-> m, key |-> bad]

\* mutant of valid_replicate: the replicate is not validated
valid_replicate_any(self, serum, virus, replicate) == TRUE

\* line 187
valid_replicate(self, serum, virus, replicate) ==
    replicate \in Range(self.replicates[<<serum, virus>>])

\* line 198
MixedStderr == Raised("RuntimeError", "stderr has some but not all entries NaN")

\* mutant of store: the new curve is the only entry the cache keeps
store_alone(self, key, entry) == [self EXCEPT !.hillcurves = (key :> entry)]

\* line 209: self._hillcurves[key] = curve
store(self, key, entry) == [self EXCEPT !.hillcurves = (key :> entry) @@ @]

\* lines 179-211; gen is the number of objects built for the key before
getCurve(self, serum, virus, replicate, fit, gen) ==
    LET key == <<serum, virus, replicate>>
        idata == idata_of(self, serum, virus, replicate)
        stderr == Column(idata, "stderr")
        fs_stderr == IF \A i \in DOMAIN stderr : IsNaN(stderr[i])
                     THEN NoStderr ELSE Stderr(stderr)
        curve == HillCurve(Column(idata, "concentration"),
                           Column(idata, "fracinf"), fs_stderr,
                           self.fixbottom, self.fixtop, fit)
        entry == [id |-> <<key, gen + 1>>, obj |-> curve.obj]
        fail(e) == [self |-> self, out |-> e, built |-> FALSE]
    IN  IF cached(self, key)
        THEN [self |-> self, out |-> Returned(self.hillcurves[key]),
              built |-> FALSE]
        ELSE IF serum \notin Range(self.sera)
        THEN fail(InvalidKey("invalid serum", serum))
        ELSE IF virus \notin Range(self.viruses[serum])
        THEN fail(InvalidKey("invalid virus", virus))
        ELSE IF ~valid_replicate(self, serum, virus, replicate)
        THEN fail(InvalidKey("invalid replicate", replicate))
        ELSE IF (\E i \in DOMAIN stderr : IsNaN(stderr[i]))
                /\ (\E i \in DOMAIN stderr : ~IsNaN(stderr[i]))
        THEN fail(MixedStderr)
        ELSE IF curve.tag = "raise" THEN fail(curve.exc)
        ELSE [self |-> store(self, key, entry),
              out |-> Returned(entry), built |-> TRUE]

\* mutant of keys_of: the loop of line 251 skips the last replicate
keys_of_not_last(self) ==
    Flatten([i \in DOMAIN self.sera |->
        LET serum == self.sera[i]
        IN  Flatten([j \in DOMAIN self.viruses[serum] |->
                LET virus == self.viruses[serum][j]
                    reps == self.replicates[<<serum, virus>>]
                IN  [k \in 1..(Len(reps) - 1) |-> <<serum, virus, reps[k]>>]])])

\* the keys in the order the loops of lines 246-251 visit them
keys_of(self) ==
    Flatten([i \in DOMAIN self.sera |->
        LET serum == self.sera[i]
        IN  Flatten([j \in DOMAIN self.viruses[serum] |->
                LET virus == self.viruses[serum][j]
                    reps == self.replicates[<<serum, virus>>]
                IN  [k \in DOMAIN reps |-> <<serum, virus, reps[k]>>]])])

\* lines 249-250
nreplicates_of(replicates) ==
    Cardinality({i \in DOMAIN replicates : replicates[i] # "average"})

\* mutant of nreplicates_cell: the count is written on every row
nreplicates_cell_always(replicate, nreplicates) == Num(nreplicates)

\* lines 259-262
nreplicates_cell(replicate, nreplicates) ==
    IF replicate = "average" THEN Num(nreplicates) ELSE NaN

\* lines 252-267 for the key keys[i] and the keys after it: the manager,
\* the rows appended to d, the keys a HillCurve was built for, and the
\* exception raised if any.  fits[i] is what curve_fit does for keys[i].
RECURSIVE fit_loop(_, _, _, _, _, _, _)
fit_loop(self, keys, i, d, fits, nfits, built) ==
    IF i > Len(keys)
    THEN [self |-> self, d |-> d, exc |-> NoError, built |-> built]
    ELSE LET key == keys[i]
             replicates == self.replicates[<<key[1], key[2]>>]
             nreplicates == nreplicates_of(replicates)
             \* lines 252-267 once getCurve has returned g
             after(g) ==
                 LET now == IF g.built THEN built \cup {key} ELSE built
                     stop(e) == [self |-> g.self, d |-> d, exc |-> e,
                                 built |-> now]
                     curve == g.out.val.obj
                     bound == ic50(curve, "bound")
                     class == ic50_bound(curve)
                     str == ic50_str(curve, DefaultPrecision)
                     row == [serum |-> key[1], virus |-> key[2],
                             replicate |-> key[3],
                             nreplicates |-> nreplicates_cell(key[3], nreplicates),
                             ic50 |-> bound.val, ic50_bound |-> class.val,
                             ic50_str |-> str.val,
                             midpoint |-> curve.midpoint, slope |-> curve.slope,
                             top |-> curve.top, bottom |-> curve.bottom]
                 IN  IF IsRaise(g.out) THEN stop(g.out)
                     ELSE IF IsRaise(bound) THEN stop(bound)
                     ELSE IF IsRaise(class) THEN stop(class)
                     ELSE IF IsRaise(str) THEN stop(str)
                     ELSE fit_loop(g.self, keys, i + 1, Append(d, row), fits,
                                   nfits, now)
         IN  IF nreplicates # Len(replicates) - 1
             THEN [self |-> self, d |-> d, built |-> built,
                   exc |-> Raised("AssertionError", "")]
             ELSE CHOOSE r \in {after(g) : g \in
                      {getCurve(self, key[1], key[2], key[3], fits[i], nfits[i])}} :
                      TRUE

Table(rows) == [tag |-> "table", rows |-> rows]

\* mutant of fitparams_cached: the cached table is never used
fitparams_cached_never(self) == FALSE

\* line 243: self._fitparams is not None
fitparams_cached(self) == self.fitparams # None

\* lines 278-281
average_rows(rows) == SelectSeq(rows, LAMBDA r : r.replicate = "average")

\* mutant of fitParams_end: the rows gathered so far are cached as the table
\* even when the loops ended with an exception
fitParams_end_partial(self, average_only, loop) ==
    [self |-> [loop.self EXCEPT !.fitparams = Table(loop.d)],
     out |-> IF loop.exc # NoError THEN loop.exc ELSE Returned(loop.d),
     built |-> loop.built, tabled |-> TRUE]

\* lines 269-283 once the loops have ended as loop; the nreplicates column is
\* nullable: NaN stands for <NA>.  tabled: a table was built in this call.
fitParams_end(self, average_only, loop) ==
    IF loop.exc # NoError
    THEN [self |-> loop.self, out |-> loop.exc, built |-> loop.built,
          tabled |-> FALSE]
    ELSE LET table == IF fitparams_cached(self) THEN self.fitparams
                      ELSE Table(loop.d)
         IN  [self |-> [loop.self EXCEPT !.fitparams = table],
              built |-> loop.built,
              tabled |-> ~fitparams_cached(self),
              out |-> Returned(IF average_only THEN average_rows(table.rows)
                               ELSE table.rows)]

\* lines 243-283
fitParams(self, average_only, fits, nfits) ==
    CHOOSE r \in {fitParams_end(self, average_only, loop) : loop \in
             {IF fitparams_cached(self)
              THEN [self |-> self, d |-> <<>>, exc |-> NoError, built |-> {}]
              ELSE fit_loop(self, keys_of(self), 1, <<>>, fits, nfits, {})}} :
        TRUE

-----------------------------------------------------------------------------
(* Specification SpecIC50: a fitted HillCurve and the calls on it.  The     *)
(* object is in any state __init__ can leave: cs sorted ascending and all   *)
(* > 0, and top, bottom, midpoint, slope whatever the fit returned.         *)

Concs == 1..MaxConc
Levels == 0..One                          \* 0, 0.25, 0.5, 0.75, 1
Slopes == {<<1, 1>>, <<1, 2>>, <<-1, 1>>, <<-1, 2>>}   \* 1, 0.5, -1, -0.5
Midpoints == 1..MaxMidpoint
Methods == {"interpolate", "bound", "extrapolate"}
Precisions == 1..MaxPrecision

IsSorted(s) == \A i \in 1..(Len(s) - 1) : s[i] <= s[i + 1]

\* curve_fit always fits midpoint and slope, so a fitted curve has at least
\* as many points as these two parameters
SortedConcs ==
    {s \in UNION {[1..n -> Concs] : n \in MinPoints..MaxPoints} : IsSorted(s)}

NoCurve == [cs |-> <<>>, fs |-> <<>>, fs_stderr |-> NoStderr, bottom |-> 0,
            top |-> 0, midpoint |-> 0, slope |-> <<1, 1>>]

NoHCall == [call |-> "none", arg |-> "", out |-> NoCall]

NoData == <<>>
NoManager == [state |-> "none"]

\* built: the keys a HillCurve object was built for during the call;
\* tabled: the parameter table was built during the call
\* fit: what curve_fit does if the call reaches it
NoCCall == [call |-> "none", args |-> <<>>, out |-> NoCall, built |-> {},
            tabled |-> FALSE, fit |-> <<>>]

CFIdle ==
    /\ data = NoData
    /\ cf = NoManager
    /\ cret = NoCCall
    /\ nfit = <<>>

InitIC50 ==
    /\ \E cs \in SortedConcs, t \in Levels, b \in Levels,
          m \in Midpoints, s \in Slopes :
          hc = [cs |-> cs, fs |-> [i \in 1..Len(cs) |-> Num(One)],
                fs_stderr |-> NoStderr, bottom |-> b, top |-> t,
                midpoint |-> m, slope |-> s]
    /\ hret = NoHCall
    /\ CFIdle

CallIc50 ==
    /\ \E method \in Methods :
          hret' = [call |-> "ic50", arg |-> method, out |-> ic50(hc, method)]
    /\ UNCHANGED <<hc, cvars>>

CallIc50Bound ==
    /\ hret' = [call |-> "ic50_bound", arg |-> "", out |-> ic50_bound(hc)]
    /\ UNCHANGED <<hc, cvars>>

CallIc50Str ==
    /\ \E precision \in Precisions :
          hret' = [call |-> "ic50_str", arg |-> precision,
                   out |-> ic50_str(hc, precision)]
    /\ UNCHANGED <<hc, cvars>>

NextIC50 == CallIc50 \/ CallIc50Bound \/ CallIc50Str

SpecIC50 == InitIC50 /\ [][NextIC50]_vars

-----------------------------------------------------------------------------
(* Claims about ic50, ic50_bound and ic50_str (specification SpecIC50)      *)

\* The curve crosses 0.5, so that (t - 0.5) / (0.5 - b) is a real number >= 0
\* and the algebraic IC50 is a (possibly infinite) real number.
Crosses(o) ==
    \/ o.top >= Half /\ o.bottom < Half
    \/ o.top <= Half /\ o.bottom > Half

AlgebraicInRange(o) ==
    /\ Crosses(o)
    /\ FLe(Num(o.cs[1]), AlgebraicIC50(o))
    /\ FLe(AlgebraicIC50(o), Num(Last(o.cs)))

AlgebraicBelow(o) == Crosses(o) /\ FLt(AlgebraicIC50(o), Num(o.cs[1]))
AlgebraicAbove(o) == Crosses(o) /\ FLt(Num(Last(o.cs)), AlgebraicIC50(o))

BelowRange(o) == (o.top < Half /\ o.bottom < Half) \/ AlgebraicBelow(o)
AboveRange(o) == (o.top >= Half /\ o.bottom >= Half) \/ AlgebraicAbove(o)

IsEndpoint(o, r) ==
    IsValue(r) /\ (r.val = Num(o.cs[1]) \/ r.val = Num(Last(o.cs)))

Called(call) == hret.call = call
CalledWith(call, arg) == hret.call = call /\ hret.arg = arg

\* C3: ic50('bound') always returns a concrete number: the algebraic IC50
\* when it is within the measured range, otherwise a measured endpoint.
C3_BoundAlwaysNumber ==
    CalledWith("ic50", "bound") =>
        /\ IsValue(hret.out)
        /\ IF AlgebraicInRange(hc) THEN hret.out.val = AlgebraicIC50(hc)
           ELSE IsEndpoint(hc, hret.out)

\* C4: ic50('interpolate') returns a number iff the algebraic IC50 is within
\* [min concentration, max concentration]; otherwise it returns None while
\* ic50('bound') returns a measured endpoint.
C4_InterpolateIffInRange ==
    CalledWith("ic50", "interpolate") =>
        /\ IsValue(hret.out) <=> AlgebraicInRange(hc)
        /\ ~AlgebraicInRange(hc) =>
              /\ hret.out = ReturnedNone
              /\ IsEndpoint(hc, ic50(hc, "bound"))

\* C5: when the IC50 lies below the measured range, ic50('bound') returns the
\* smallest measured concentration and ic50_bound() reports 'lower'.
C5_BelowRangeIsLower ==
    BelowRange(hc) =>
        /\ CalledWith("ic50", "bound") => hret.out = Returned(Num(hc.cs[1]))
        /\ Called("ic50_bound") => hret.out = Returned("lower")

\* C6: when the IC50 lies above the measured range, ic50('interpolate') is
\* None, ic50('bound') is the largest measured concentration and ic50_bound()
\* reports 'upper'.
C6_AboveRangeIsUpper ==
    AboveRange(hc) =>
        /\ CalledWith("ic50", "interpolate") => hret.out = ReturnedNone
        /\ CalledWith("ic50", "bound") => hret.out = Returned(Num(Last(hc.cs)))
        /\ Called("ic50_bound") => hret.out = Returned("upper")

\* C7: ic50_str returns ic50('bound') formatted to the requested significant
\* digits, prefixed by nothing, '<' or '>' as ic50_bound() is 'interpolated',
\* 'lower' or 'upper'; ic50_bound() always yields one of these three.
C7_StrIsPrefixedBound ==
    /\ Called("ic50_bound") =>
          /\ IsValue(hret.out)
          /\ hret.out.val \in {"interpolated", "lower", "upper"}
    /\ Called("ic50_str") =>
          /\ IsValue(hret.out)
          /\ IsValue(ic50(hc, "bound"))
          /\ \E b \in {"interpolated", "lower", "upper"} :
                /\ ic50_bound(hc) = Returned(b)
                /\ hret.out.val =
                      Prefix(b) \o FormatG(ic50(hc, "bound").val, hret.arg)

\* C8: ic50 called with a method other than 'interpolate' and 'bound' fails
\* with an invalid-argument error (ValueError), whatever the curve.
C8_BadMethodRaises ==
    (Called("ic50") /\ hret.arg \notin {"interpolate", "bound"}) =>
        hret.out.tag = "ValueError"

-----------------------------------------------------------------------------
(* Specification SpecConstruct: CurveFits(data) for every data of at most   *)
(* MaxRows rows over three (serum, virus) pairs, four raw replicate values  *)
(* and two concentrations, with the default fixbottom=False, fixtop=1.      *)

Cohorts == {<<"a", "x">>, <<"a", "y">>, <<"b", "x">>}
RawReplicates == {"int:1", "str:1", "str:2", "str:average"}
DataConcs == {1, 2}
DataFracs == {Num(One)}

Rows(cohorts, reps) ==
    {[serum |-> sv[1], virus |-> sv[2], replicate |-> rep,
      concentration |-> c, fracinf |-> f] :
        sv \in cohorts, rep \in reps, c \in DataConcs, f \in DataFracs}

HIdle == hc = NoCurve /\ hret = NoHCall

InitConstruct ==
    /\ \E n \in 0..MaxRows : data \in [1..n -> Rows(Cohorts, RawReplicates)]
    /\ cf = NoManager
    /\ cret = NoCCall
    /\ nfit = <<>>
    /\ HIdle

\* the fixbottom, fixtop arguments: the defaults, and bottom fixed to 0
Policies == {<<Free, Fixed(One)>>, <<Fixed(0), Fixed(One)>>}

\* cf = CurveFits(data, fixbottom=..., fixtop=...)
Construct ==
    /\ cret.call = "none"
    /\ \E pol \in Policies :
          LET r == CurveFits(data, pol[1], pol[2])
          IN  IF r.tag = "ok"
              THEN /\ cf' = r.obj
                   /\ cret' = [call |-> "CurveFits", args |-> <<>>,
                               out |-> Returned("self"), built |-> {},
                               tabled |-> FALSE, fit |-> <<>>]
              ELSE /\ cf' = cf
                   /\ cret' = [call |-> "CurveFits", args |-> <<>>,
                               out |-> r.exc, built |-> {},
                               tabled |-> FALSE, fit |-> <<>>]
    /\ UNCHANGED <<data, nfit, hvars>>

NextConstruct == Construct

SpecConstruct == InitConstruct /\ [][NextConstruct]_vars

-----------------------------------------------------------------------------
(* Claims about CurveFits.__init__ (specification SpecConstruct)            *)

ConstructorCalled == cret.call = "CurveFits"
ConstructorRaised == ConstructorCalled /\ cret.out.tag = "ValueError"
Constructed == ConstructorCalled /\ cf.state = "constructed"

\* the set of concentrations of the rows of data for (serum, virus) whose
\* replicate, as a string, is rep
ConcSet(d, serum, virus, rep) ==
    {d[i].concentration : i \in {j \in DOMAIN d :
        /\ d[j].serum = serum /\ d[j].virus = virus
        /\ astype_str(d[j].replicate) = rep}}

DataKeys(d) ==
    {<<d[i].serum, d[i].virus, astype_str(d[i].replicate)>> : i \in DOMAIN d}

\* two replicates of one (serum, virus) with different sets of concentrations
MismatchedReplicates(d) ==
    \E k1 \in DataKeys(d), k2 \in DataKeys(d) :
        /\ k1[1] = k2[1] /\ k1[2] = k2[2]
        /\ ConcSet(d, k1[1], k1[2], k1[3]) # ConcSet(d, k2[1], k2[2], k2[3])

\* C1: constructing a CurveFits from data in which two replicates of the same
\* (serum, virus) have different sets of concentrations fails with a
\* validation error.
C1_MismatchRejected ==
    (ConstructorCalled /\ MismatchedReplicates(data)) => ConstructorRaised

HasAverageReplicate(d) ==
    \E i \in DOMAIN d : astype_str(d[i].replicate) = "average"

\* C9: constructing a CurveFits from data in which a replicate identifier, as
\* a string, is 'average' fails with a validation error and yields no manager.
C9_AverageRejected ==
    (ConstructorCalled /\ HasAverageReplicate(data)) =>
        ConstructorRaised /\ cf = NoManager

\* the constructor rejected data whose only defect is a replicate 'average'
C9_Witness ==
    /\ ConstructorRaised
    /\ HasAverageReplicate(data)
    /\ cret.out.msg = "A replicate is named average"
    /\ Len(data) > 1

\* the rows of data of one (serum, virus, replicate-as-string) group
GroupRows(d, k) ==
    {i \in DOMAIN d : <<d[i].serum, d[i].virus, astype_str(d[i].replicate)>> = k}

DuplicateIn(d, k) ==
    \E i \in GroupRows(d, k), j \in GroupRows(d, k) :
        i # j /\ d[i].concentration = d[j].concentration

\* C10: constructing a CurveFits from data in which some (serum, virus,
\* replicate) group holds the same concentration more than once fails with a
\* validation error, whichever replicate of whichever cohort it is.
C10_DuplicateRejected ==
    (ConstructorCalled /\ \E k \in DataKeys(data) : DuplicateIn(data, k)) =>
        ConstructorRaised /\ cf = NoManager

\* the constructor rejected data whose duplicate is in the last replicate of
\* a cohort of two replicates
C10_Witness ==
    /\ ConstructorRaised
    /\ cret.out.msg = "duplicate concentrations"
    /\ \E k \in DataKeys(data) :
          /\ DuplicateIn(data, k)
          /\ \A k2 \in DataKeys(data) : k2 # k => ~DuplicateIn(data, k2)
          /\ \E i \in DOMAIN data :
                /\ <<data[i].serum, data[i].virus>> = <<k[1], k[2]>>
                /\ astype_str(data[i].replicate) # k[3]
                /\ \A j \in GroupRows(data, k) : i < j
-----------------------------------------------------------------------------
(* Specification SpecCF: a CurveFits built from gridded data (every cohort  *)
(* has the same replicates and concentrations, the last row possibly        *)
(* missing), then any sequence of getCurve and fitParams calls.  nfit       *)
(* counts, per key, the HillCurve objects built so far.                     *)

\* the measured fraction infectivity at each concentration, in quarters
GridFracs == <<One, Half, 0>>

Grid(cohorts, reps, concs) ==
    Flatten([i \in DOMAIN cohorts |->
        Flatten([j \in DOMAIN reps |->
            [k \in DOMAIN concs |->
                [serum |-> cohorts[i][1], virus |-> cohorts[i][2],
                 replicate |-> reps[j], concentration |-> concs[k],
                 fracinf |-> Num(GridFracs[concs[k]])]]])])

\* the cohorts and the replicates of each
CFShapes == {<<<< <<"a", "x">> >>, <<"str:2">>>>,
             <<<< <<"a", "x">> >>, <<"str:2", "int:1">>>>,
             <<<< <<"b", "x">>, <<"a", "x">> >>, <<"int:1">>>>}
CFConcLists == {<<3, 2>>, <<3, 1, 2>>}

CFData ==
    {SubSeq(Grid(sh[1], sh[2], concs), 1, Len(Grid(sh[1], sh[2], concs)) - drop) :
        sh \in CFShapes, concs \in CFConcLists, drop \in {0, 1}}

\* what curve_fit can do: fail, or return one of two parameter vectors
CFFits == {FitFailure,
           FitResult(1, <<1, 1>>, 0, One),
           FitResult(3, <<-1, 2>>, Half, One)}

SerumArgs == {"a", "b"}
VirusArgs == {"x", "y"}
ReplicateArgs == {"1", "2", "average"}

NFit(key) == IF key \in DOMAIN nfit THEN nfit[key] ELSE 0

InitCF ==
    /\ data \in CFData
    /\ cf = NoManager
    /\ cret = NoCCall
    /\ nfit = <<>>
    /\ HIdle

\* cf.getCurve(serum=serum, virus=virus, replicate=replicate); the outcome
\* of curve_fit is drawn only when the call reaches curve_fit, which is when
\* a failing curve_fit makes the call fail
GetCurve ==
    /\ cf.state = "constructed"
    /\ \E serum \in SerumArgs, virus \in VirusArgs, replicate \in ReplicateArgs :
          LET key == <<serum, virus, replicate>>
          IN  \E failed \in {getCurve(cf, serum, virus, replicate, FitFailure,
                                      NFit(key))} :
              \E fit \in IF failed.out = Raised("RuntimeError",
                                                "Optimal parameters not found")
                         THEN CFFits ELSE {FitFailure} :
              \E r \in {IF fit = FitFailure THEN failed
                        ELSE getCurve(cf, serum, virus, replicate, fit, NFit(key))} :
                /\ cf' = r.self
                /\ cret' = [call |-> "getCurve", args |-> key, out |-> r.out,
                            built |-> IF r.built THEN {key} ELSE {},
                            tabled |-> FALSE, fit |-> fit]
                /\ nfit' = IF r.built THEN (key :> NFit(key) + 1) @@ nfit
                           ELSE nfit
    /\ UNCHANGED <<data, hvars>>

\* cf.fitParams(average_only=average_only); curve_fit is reached only for
\* the keys that have no cached curve, and for none after it has failed
FitParams ==
    /\ cf.state = "constructed"
    /\ \E keys \in {keys_of(cf)} :
         LET reached == {i \in DOMAIN keys :
                          cf.fitparams = None /\ keys[i] \notin DOMAIN cf.hillcurves}
         IN  \E average_only \in BOOLEAN, outcome \in [reached -> CFFits] :
               /\ \A i, j \in reached :
                     (i < j /\ outcome[i] = FitFailure) => outcome[j] = FitFailure
               /\ \E r \in {fitParams(cf, average_only,
                                      [i \in DOMAIN keys |->
                                          IF i \in reached THEN outcome[i]
                                          ELSE FitFailure],
                                      [i \in DOMAIN keys |-> NFit(keys[i])])} :
                    /\ cf' = r.self
                    /\ cret' = [call |-> "fitParams", args |-> <<average_only>>,
                                out |-> r.out, built |-> r.built,
                                tabled |-> r.tabled, fit |-> outcome]
                    /\ nfit' = [k \in DOMAIN nfit \cup r.built |->
                                   NFit(k) + IF k \in r.built THEN 1 ELSE 0]
    /\ UNCHANGED <<data, hvars>>

NextCF == Construct \/ GetCurve \/ FitParams

SpecCF == InitCF /\ [][NextCF]_vars

-----------------------------------------------------------------------------
(* Claims about getCurve and fitParams (specification SpecCF)               *)

\* C2: in any sequence of getCurve and fitParams calls on one CurveFits, a
\* HillCurve is built at most once per key, and a getCurve call for a key that
\* already has a curve returns that very object, builds nothing and leaves
\* the manager as it was.
C2_FitOncePerKey ==
    [][/\ \A k \in DOMAIN nfit' : nfit'[k] <= 1
       /\ (/\ cret'.call = "getCurve"
           /\ cf.state = "constructed"
           /\ cret'.args \in DOMAIN cf.hillcurves)
            => /\ cret'.out = Returned(cf.hillcurves[cret'.args])
               /\ cret'.built = {}
               /\ nfit' = nfit
               /\ cf' = cf]_vars

\* getCurve answered from the cache for a key whose curve fitParams built,
\* while another key of the manager has no curve yet
C2_Witness ==
    /\ cret.call = "getCurve"
    /\ cf.state = "constructed"
    /\ cret.args \in DOMAIN cf.hillcurves
    /\ cret.out = Returned(cf.hillcurves[cret.args])
    /\ cret.built = {}
    /\ NFit(cret.args) = 1
    /\ \E k \in DOMAIN cf.hillcurves : k # cret.args
    /\ cf.fitparams # None

\* the first of serum, virus, replicate that the indices of the manager do
\* not list, or "none"
BadKeyPart(m, key) ==
    IF key[1] \notin Range(m.sera) THEN "serum"
    ELSE IF key[2] \notin Range(m.viruses[key[1]]) THEN "virus"
    ELSE IF key[3] \notin Range(m.replicates[<<key[1], key[2]>>]) THEN "replicate"
    ELSE "none"

GetCurveStep == cf.state = "constructed" /\ cret'.call = "getCurve"

\* C11: getCurve with a serum not in the sera index, a virus not listed for
\* the serum, or a replicate not listed for the (serum, virus) raises
\* ValueError naming the bad value, and leaves the manager (curve cache and
\* parameter-table cache included) and the fit counts unchanged.
C11_InvalidKeyRejected ==
    [][(GetCurveStep /\ BadKeyPart(cf, cret'.args) # "none") =>
          /\ cret'.out.tag = "ValueError"
          /\ cret'.out.msg = "invalid " \o BadKeyPart(cf, cret'.args)
          /\ cret'.out.key =
                cret'.args[CHOOSE i \in 1..3 :
                    <<"serum", "virus", "replicate">>[i] = BadKeyPart(cf, cret'.args)]
          /\ cret'.built = {}
          /\ cf' = cf
          /\ nfit' = nfit]_vars

\* getCurve rejected a replicate the (serum, virus) does not list while the
\* manager held fitted curves and the parameter table, all still there
C11_Witness ==
    /\ cret.call = "getCurve"
    /\ cf.state = "constructed"
    /\ cret.out.tag = "ValueError"
    /\ BadKeyPart(cf, cret.args) = "replicate"
    /\ cf.hillcurves # <<>>
    /\ cf.fitparams # None

\* the (serum, virus, replicate) keys the indices of a manager list
IndexKeys(m) ==
    UNION {UNION {{<<se, vi, re>> : re \in Range(m.replicates[<<se, vi>>])} :
                     vi \in Range(m.viruses[se])} : se \in Range(m.sera)}

RowKey(row) == <<row.serum, row.virus, row.replicate>>

FitParamsReturned(average_only) ==
    /\ cret.call = "fitParams"
    /\ cret.args = <<average_only>>
    /\ IsValue(cret.out)

\* C12: the table fitParams(average_only=False) returns has exactly one row
\* for every key of the indices, the 'average' of every (serum, virus)
\* included, and no row for another key; every such key is then in the curve
\* cache.
C12_TableCoversIndices ==
    FitParamsReturned(FALSE) =>
        LET rows == cret.out.val
        IN  /\ \A k \in IndexKeys(cf) :
                  Cardinality({i \in DOMAIN rows : RowKey(rows[i]) = k}) = 1
            /\ \A i \in DOMAIN rows : RowKey(rows[i]) \in IndexKeys(cf)
            /\ \A se \in Range(cf.sera) : \A vi \in Range(cf.viruses[se]) :
                  \E i \in DOMAIN rows : RowKey(rows[i]) = <<se, vi, "average">>
            /\ IndexKeys(cf) \subseteq DOMAIN cf.hillcurves

\* fitParams(average_only=False) returned the table of a manager of two
\* cohorts
C12_Witness ==
    /\ FitParamsReturned(FALSE)
    /\ Len(cf.sera) = 2
    /\ Len(cret.out.val) = 4
    /\ cret.built # {}

\* C13: once fitParams has returned and the table is cached, every later
\* fitParams call, with either average_only, fits no curve and builds no
\* table: it leaves the manager as it was and returns the rows of the cached
\* table, with average_only=True exactly those whose replicate is 'average'.
C13_TableCached ==
    [][(/\ cf.state = "constructed"
        /\ cf.fitparams # None
        /\ cret'.call = "fitParams")
          => /\ cret'.built = {}
             /\ ~cret'.tabled
             /\ nfit' = nfit
             /\ cf' = cf
             /\ IsValue(cret'.out)
             /\ LET rows == cf.fitparams.rows
                    kept == {i \in DOMAIN rows : rows[i].replicate = "average"}
                    out == cret'.out.val
                IN  IF cret'.args = <<FALSE>> THEN out = rows
                    ELSE /\ Len(out) = Cardinality(kept)
                         /\ \A i \in DOMAIN out : out[i].replicate = "average"
                         /\ \A i \in kept : \E j \in DOMAIN out : out[j] = rows[i]
                         /\ \A i, j \in DOMAIN out : i < j =>
                               \E a, b \in kept :
                                   a < b /\ rows[a] = out[i] /\ rows[b] = out[j]]_vars

\* fitParams(average_only=True) answered from the cached table of a manager
\* with replicate rows to filter out
C13_Witness ==
    /\ FitParamsReturned(TRUE)
    /\ ~cret.tabled
    /\ cret.built = {}
    /\ cf.fitparams # None
    /\ Len(cret.out.val) < Len(cf.fitparams.rows)
    /\ Len(cret.out.val) = 2

\* the replicates, as strings, that data holds for a (serum, virus)
DataReplicates(d, serum, virus) ==
    {astype_str(d[i].replicate) :
        i \in {j \in DOMAIN d : d[j].serum = serum /\ d[j].virus = virus}}

\* C14: in the parameter table the replicate count is set exactly on the rows
\* whose replicate is 'average', where it is the number of replicates the
\* data holds for the (serum, virus); on every other row it is absent.
C14_ReplicateCount ==
    (cf.state = "constructed" /\ cf.fitparams # None) =>
        \A i \in DOMAIN cf.fitparams.rows :
            LET row == cf.fitparams.rows[i]
            IN  IF row.replicate = "average"
                THEN row.nreplicates =
                        Num(Cardinality(DataReplicates(data, row.serum, row.virus)))
                ELSE IsNaN(row.nreplicates)

\* a table with the row of the average of two replicates and the rows of the
\* two replicates
C14_Witness ==
    /\ cf.state = "constructed"
    /\ cf.fitparams # None
    /\ \E i, j \in DOMAIN cf.fitparams.rows :
          /\ cf.fitparams.rows[i].nreplicates = Num(2)
          /\ IsNaN(cf.fitparams.rows[j].nreplicates)

-----------------------------------------------------------------------------
(* Claims about the dataset and the indices of a constructed manager        *)
(* (specification SpecConstruct)                                            *)

\* the distinct (serum, virus, concentration) of data
DataPoints(d) ==
    {<<d[i].serum, d[i].virus, d[i].concentration>> : i \in DOMAIN d}

\* the rows of data at one (serum, virus, concentration)
PointRows(d, pt) ==
    {i \in DOMAIN d : <<d[i].serum, d[i].virus, d[i].concentration>> = pt}

\* the rows of df with replicate 'average' at one (serum, virus, concentration)
AverageRows(df, pt) ==
    {i \in DOMAIN df : /\ df[i].replicate = "average"
                       /\ <<df[i].serum, df[i].virus, df[i].concentration>> = pt}

\* C15: after successful construction df holds every row of data, in order,
\* with its serum, virus, concentration and fraction infectivity (and its
\* replicate as a string), followed by exactly one row with replicate
\* 'average' per distinct (serum, virus, concentration), whose count is the
\* number of rows of data at that point; no row of data is replaced.
C15_AverageRowsAppended ==
    Constructed =>
        /\ Len(cf.df) = Len(data) + Cardinality(DataPoints(data))
        /\ \A i \in DOMAIN data :
              /\ cf.df[i].serum = data[i].serum
              /\ cf.df[i].virus = data[i].virus
              /\ cf.df[i].replicate = astype_str(data[i].replicate)
              /\ cf.df[i].concentration = data[i].concentration
              /\ cf.df[i].fracinf = data[i].fracinf
        /\ \A i \in DOMAIN cf.df : i > Len(data) => cf.df[i].replicate = "average"
        /\ \A pt \in DataPoints(data) :
              /\ Cardinality(AverageRows(cf.df, pt)) = 1
              /\ \A i \in AverageRows(cf.df, pt) :
                    cf.df[i].count = Num(Cardinality(PointRows(data, pt)))

\* a manager built from three rows, two of them replicates at one point
C15_Witness ==
    /\ Constructed
    /\ Len(data) = 3
    /\ Len(cf.df) = 5
    /\ \E i \in DOMAIN cf.df : cf.df[i].count = Num(2)

\* the index of the first occurrence of x in the sequence xs
FirstAt(xs, x) == CHOOSE i \in DOMAIN xs : xs[i] = x /\ \A j \in 1..(i - 1) : xs[j] # x

\* l lists the distinct members of xs, each once, in order of first occurrence
InFirstSeenOrder(l, xs) ==
    /\ Range(l) = Range(xs)
    /\ \A i, j \in DOMAIN l : i < j => FirstAt(xs, l[i]) < FirstAt(xs, l[j])

\* the values of a column of the rows of data that satisfy Keep
DataColumn(d, Keep(_), Value(_)) ==
    LET rows == SelectSeq(d, Keep) IN [i \in DOMAIN rows |-> Value(rows[i])]

\* C16: after successful construction the sera list, the virus list of each
\* serum and the replicate list of each (serum, virus) hold their distinct
\* members in order of first occurrence in data, and every replicate list
\* then ends with 'average', which it holds exactly once.
C16_IndicesInFirstSeenOrder ==
    Constructed =>
        /\ InFirstSeenOrder(cf.sera,
               DataColumn(data, LAMBDA r : TRUE, LAMBDA r : r.serum))
        /\ DOMAIN cf.viruses = Range(cf.sera)
        /\ \A se \in Range(cf.sera) :
              /\ InFirstSeenOrder(cf.viruses[se],
                     DataColumn(data, LAMBDA r : r.serum = se, LAMBDA r : r.virus))
              /\ \A vi \in Range(cf.viruses[se]) :
                    LET reps == cf.replicates[<<se, vi>>]
                    IN  /\ reps # <<>>
                        /\ Last(reps) = "average"
                        /\ Cardinality({i \in DOMAIN reps : reps[i] = "average"}) = 1
                        /\ InFirstSeenOrder(SubSeq(reps, 1, Len(reps) - 1),
                               DataColumn(data,
                                   LAMBDA r : r.serum = se /\ r.virus = vi,
                                   LAMBDA r : astype_str(r.replicate)))
        /\ DOMAIN cf.replicates =
              {<<data[i].serum, data[i].virus>> : i \in DOMAIN data}

\* a manager whose sera and replicates first occur in data in descending
\* order
C16_Witness ==
    /\ Constructed
    /\ cf.sera = <<"b", "a">>
    /\ cf.replicates[<<"b", "x">>] = <<"2", "1", "average">>

-----------------------------------------------------------------------------
(* Specification SpecHill: HillCurve(cs, fs, ...) for every list of at most *)
(* MaxHillPoints concentrations in 0..MaxHillConc in any order, measured    *)
(* along a falling or a rising response, with or without standard errors,   *)
(* bottom free or fixed to 0, top free or fixed to 1, and curve_fit failing *)
(* or returning one of two parameter vectors; then dataframe calls.         *)

HillConcs == 0..MaxHillConc
HillCs == UNION {[1..n -> HillConcs] : n \in 1..MaxHillPoints}

\* the measurement at concentration c, in quarters
Response(profile, c) ==
    IF profile = "falling"
    THEN (IF c <= 1 THEN One ELSE IF c = 2 THEN Half ELSE 0)
    ELSE (IF c <= 1 THEN 0 ELSE One)

Profiles == {"falling", "rising"}

HillBottoms == {Free, Fixed(0)}
HillTops == {Free, Fixed(One)}

\* 0.25 and 0.75 are neither a fixed value nor a guess of top or bottom
HillFits == {FitFailure,
             FitResult(2, <<1, 1>>, 1, 3),
             FitResult(1, <<-1, 1>>, 3, 1)}

DataframeArgs ==
    {[kind |-> "auto"], [kind |-> "measured"]}
        \cup {[kind |-> "list", vals |-> v] : v \in {<<>>, <<3>>, <<3, 1>>}}

InitHill ==
    /\ hc = NoCurve
    /\ hret = NoHCall
    /\ CFIdle

\* hc = HillCurve(cs, fs, fs_stderr=..., fixbottom=..., fixtop=...)
Build ==
    /\ hret.call = "none"
    /\ \E cs \in HillCs, profile \in Profiles, weighted \in BOOLEAN,
          fixbottom \in HillBottoms, fixtop \in HillTops, fit \in HillFits :
          LET fs == [i \in DOMAIN cs |-> Num(Response(profile, cs[i]))]
              se == IF weighted THEN Stderr([i \in DOMAIN cs |-> Num(i)])
                    ELSE NoStderr
              arg == [cs |-> cs, fs |-> fs, fs_stderr |-> se,
                      fixbottom |-> fixbottom, fixtop |-> fixtop, fit |-> fit]
          IN  \E r \in {HillCurve(cs, fs, se, fixbottom, fixtop, fit)} :
                IF r.tag = "ok"
                THEN /\ hc' = r.obj
                     /\ hret' = [call |-> "HillCurve", arg |-> arg,
                                 out |-> Returned([func_vars |-> r.func_vars,
                                                   initguess |-> r.initguess])]
                ELSE /\ hc' = hc
                     /\ hret' = [call |-> "HillCurve", arg |-> arg,
                                 out |-> r.exc]
    /\ UNCHANGED cvars

\* hc.dataframe(concentrations)
CallDataframe ==
    /\ hret.call # "none"
    /\ hc # NoCurve
    /\ \E concentrations \in DataframeArgs :
          hret' = [call |-> "dataframe", arg |-> concentrations,
                   out |-> dataframe(hc, concentrations)]
    /\ UNCHANGED <<hc, cvars>>

NextHill == Build \/ CallDataframe

SpecHill == InitHill /\ [][NextHill]_vars

-----------------------------------------------------------------------------
(* Claims about HillCurve.__init__ and dataframe (specification SpecHill)   *)

HillBuilt == hret.call = "HillCurve" /\ IsValue(hret.out)

\* the parameters the arguments of the constructor leave free
FreeParams(arg) ==
    {"midpoint", "slope"}
        \cup (IF arg.fixbottom.fixed THEN {} ELSE {"bottom"})
        \cup (IF arg.fixtop.fixed THEN {} ELSE {"top"})

\* C17: after HillCurve construction a top or bottom fixed to a number, the
\* number 0 included, has that value; the variables of the optimizer are
\* midpoint and slope plus whichever of bottom and top are free, each once;
\* and the free parameters, and only they, have the values the fit returned.
C17_FixedParametersKept ==
    HillBuilt =>
        LET arg == hret.arg
            fvars == hret.out.val.func_vars
        IN  /\ arg.fixbottom.fixed => hc.bottom = arg.fixbottom.val
            /\ arg.fixtop.fixed => hc.top = arg.fixtop.val
            /\ Range(fvars) = FreeParams(arg)
            /\ Len(fvars) = Cardinality(FreeParams(arg))
            /\ Len(fvars) \in {2, 3, 4}
            /\ \A v \in FreeParams(arg) : hc[v] = arg.fit[v]

\* a curve built with bottom fixed to 0 and top free from four points, and
\* the fit returned a bottom other than 0
C17_Witness ==
    /\ HillBuilt
    /\ hret.arg.fixbottom = Fixed(0)
    /\ ~hret.arg.fixtop.fixed
    /\ hret.arg.fit.bottom # 0
    /\ hc.bottom = 0
    /\ Len(hc.cs) = 4

-----------------------------------------------------------------------------
(* Claims about failed fits (specification SpecCF)                          *)

\* the rows of the dataset of a manager for one key
KeyRows(m, key) ==
    {i \in DOMAIN m.df : <<m.df[i].serum, m.df[i].virus, m.df[i].replicate>> = key}

\* getCurve(key) on manager m gets as far as curve_fit: the key is valid and
\* has no curve yet, its standard errors are all present or all absent, and
\* it has at least as many points as the fit has free parameters
ReachesOptimizer(m, key) ==
    /\ BadKeyPart(m, key) = "none"
    /\ key \notin DOMAIN m.hillcurves
    /\ \/ \A i \in KeyRows(m, key) : IsNaN(m.df[i].stderr)
       \/ \A i \in KeyRows(m, key) : ~IsNaN(m.df[i].stderr)
    /\ Cardinality(KeyRows(m, key)) >=
          MinPoints + (IF m.fixbottom.fixed THEN 0 ELSE 1)
                    + (IF m.fixtop.fixed THEN 0 ELSE 1)

\* C18: when curve_fit fails while getCurve builds a curve, the RuntimeError
\* of the optimizer reaches the caller of getCurve, no curve is returned and
\* the curve cache stays as it was.
C18_FitFailureSurfaced ==
    [][(/\ GetCurveStep
        /\ cret'.fit = FitFailure
        /\ ReachesOptimizer(cf, cret'.args))
          => /\ cret'.out = Raised("RuntimeError", "Optimal parameters not found")
             /\ cret'.built = {}
             /\ cf' = cf
             /\ nfit' = nfit]_vars

\* the fit of the average of two replicates failed in a manager that holds
\* the curve of one of the replicates
C18_Witness ==
    /\ cret.call = "getCurve"
    /\ cf.state = "constructed"
    /\ cret.fit = FitFailure
    /\ cret.out.tag = "RuntimeError"
    /\ cret.out.msg = "Optimal parameters not found"
    /\ cret.args[3] = "average"
    /\ cret.args \notin DOMAIN cf.hillcurves
    /\ cf.hillcurves # <<>>

-----------------------------------------------------------------------------
(* Claims about the IC50 and the midpoint (specification SpecIC50)          *)

Interpolated == CalledWith("ic50", "interpolate") /\ IsValue(hret.out)

-----------------------------------------------------------------------------
(* Claims about HillCurve.dataframe (specification SpecHill)                *)

\* a measurement exists at concentration c
MeasuredAt(o, c) == \E i \in DOMAIN o.cs : FEq(Num(o.cs[i]), c)

\* C20: the table dataframe returns is sorted ascending by concentration,
\* has a fit value on every row, and has no measurement on a row exactly when
\* the curve has no measurement at the concentration of the row; with
\* 'measured' its rows are exactly the measured points; and the call changes
\* neither the stored data nor the fitted parameters.
C20_DataframeAligned ==
    [][(hret'.call = "dataframe" /\ IsValue(hret'.out)) =>
          LET rows == hret'.out.val.rows
          IN  /\ \A i \in 1..(Len(rows) - 1) :
                    FLe(rows[i].concentration, rows[i + 1].concentration)
              /\ \A i \in DOMAIN rows : ~IsNaN(rows[i].fit)
              /\ \A i \in DOMAIN rows :
                    IsNaN(rows[i].measurement) <=> ~MeasuredAt(hc, rows[i].concentration)
              /\ hret'.arg.kind = "measured" =>
                    /\ Len(rows) = Len(hc.cs)
                    /\ \A i \in DOMAIN rows :
                          /\ rows[i].concentration = Num(hc.cs[i])
                          /\ rows[i].measurement = hc.fs[i]
              /\ hc' = hc]_vars

-----------------------------------------------------------------------------
(* Claims about the lifetime of the cached curves (specification SpecCF)    *)

\* the keys a call asks getCurve for: its own key for getCurve, every key of
\* the indices for fitParams
RequestedKeys(m, call) ==
    IF call.call = "getCurve" THEN {call.args}
    ELSE IF call.call = "fitParams" THEN Range(keys_of(m))
    ELSE {}

\* C21: the curve cache is empty right after construction, a key enters it
\* only in a call that asks getCurve for that key (getCurve itself, or
\* fitParams for the keys of the indices), and an entry once present is never
\* removed, replaced or changed by a later call.
C21_CurvesLazyAndKept ==
    [][/\ (cret'.call = "CurveFits" /\ cf'.state = "constructed")
            => cf'.hillcurves = <<>>
       /\ cf.state = "constructed"
            => /\ cf'.state = "constructed"
               /\ \A k \in DOMAIN cf.hillcurves :
                     /\ k \in DOMAIN cf'.hillcurves
                     /\ cf'.hillcurves[k] = cf.hillcurves[k]
               /\ \A k \in DOMAIN cf'.hillcurves \ DOMAIN cf.hillcurves :
                     /\ k \in RequestedKeys(cf, cret')
                     /\ k \in cret'.built]_vars

\* a getCurve call has just added a curve to a cache that already held the
\* curve of another key, built by an earlier getCurve call
C21_Witness ==
    /\ cret.call = "getCurve"
    /\ cf.state = "constructed"
    /\ cret.built = {cret.args}
    /\ cret.args \in DOMAIN cf.hillcurves
    /\ cf.fitparams = None
    /\ \E k \in DOMAIN cf.hillcurves : k # cret.args /\ NFit(k) = 1

-----------------------------------------------------------------------------
(* Claims about the initial guesses of HillCurve (specification SpecHill)   *)

\* the value halfway between the guessed top and the guessed bottom of the
\* sorted responses fs
Halfway(fs, arg) ==
    FHalve(FAdd(top_guess(fs, arg.fixtop), bottom_guess(fs, arg.fixbottom)))

\* C22: the initial midpoint guess is the mean of the two adjacent sorted
\* concentrations at the first change of (response > value halfway between
\* the guessed top and the guessed bottom); when all responses are above that
\* value it is the largest concentration for a positive slope guess and the
\* smallest for a negative one, and when all are at or below it the smallest
\* for a positive slope guess and the largest for a negative one.
C22_MidpointGuessAtHalfway ==
    HillBuilt =>
        LET cs == hc.cs
            fs == hc.fs
            half == Halfway(fs, hret.arg)
            above(i) == FLt(half, fs[i])
            positive == slope_guess(fs)[1] > 0
            guessed == hret.out.val.initguess[1]
        IN  IF \A i \in DOMAIN fs : above(i)
            THEN FEq(guessed, Num(IF positive THEN Last(cs) ELSE cs[1]))
            ELSE IF \A i \in DOMAIN fs : ~above(i)
            THEN FEq(guessed, Num(IF positive THEN cs[1] ELSE Last(cs)))
            ELSE \E k \in 1..(Len(fs) - 1) :
                    /\ above(k) # above(k + 1)
                    /\ \A l \in 1..(k - 1) : above(l) = above(l + 1)
                    /\ FEq(guessed, <<cs[k] + cs[k + 1], 2>>)

-----------------------------------------------------------------------------
(* Claims about the standard errors getCurve selects (specification SpecCF) *)

\* the stderr column of the rows getCurve selects for a key
KeyStderr(m, key) == Column(idata_of(m, key[1], key[2], key[3]), "stderr")

\* C23: once a CurveFits is constructed, for every key of its indices the
\* standard errors of the rows getCurve selects are all present or all
\* absent, and no call ends with the error 'stderr has some but not all
\* entries NaN'.
C23_StderrAllOrNone ==
    cf.state = "constructed" =>
        /\ \A key \in Range(keys_of(cf)) :
              LET stderr == KeyStderr(cf, key)
              IN  \/ \A i \in DOMAIN stderr : IsNaN(stderr[i])
                  \/ \A i \in DOMAIN stderr : ~IsNaN(stderr[i])
        /\ cret.out # MixedStderr

-----------------------------------------------------------------------------
(* Claims about a fitParams call that fails (specification SpecCF)          *)

\* C24: a fitParams call that raises leaves the table cache unset and keeps
\* in the curve cache the curves it fitted before the failure, which are
\* those of the keys before the failing one; and every fitParams call made
\* while the table cache is unset, a call after a failed one included, goes
\* through the keys from the first one, fits no key that has a cached curve,
\* leaves the cached curves as they were, and if it returns, its table has
\* one row per key in order, each with the parameters of the cached curve.
C24_FailedFitParamsResumes ==
    [][(/\ cret'.call = "fitParams"
        /\ cf.state = "constructed"
        /\ cf.fitparams = None) =>
          LET keys == keys_of(cf)
          IN  /\ \A k \in DOMAIN cf.hillcurves :
                    /\ k \in DOMAIN cf'.hillcurves
                    /\ cf'.hillcurves[k] = cf.hillcurves[k]
              /\ cret'.built \cap DOMAIN cf.hillcurves = {}
              /\ DOMAIN cf'.hillcurves = DOMAIN cf.hillcurves \cup cret'.built
              /\ IsRaise(cret'.out) =>
                    /\ cf'.fitparams = None
                    /\ \E n \in 1..Len(keys) :
                          /\ \A i \in 1..(n - 1) : keys[i] \in DOMAIN cf'.hillcurves
                          /\ cret'.built \subseteq {keys[i] : i \in 1..n}
              /\ IsValue(cret'.out) =>
                    /\ cf'.fitparams # None
                    /\ Len(cf'.fitparams.rows) = Len(keys)
                    /\ \A i \in DOMAIN keys :
                          LET row == cf'.fitparams.rows[i]
                              curve == cf'.hillcurves[keys[i]].obj
                          IN  /\ RowKey(row) = keys[i]
                              /\ row.midpoint = curve.midpoint
                              /\ row.slope = curve.slope
                              /\ row.top = curve.top
                              /\ row.bottom = curve.bottom]_vars

\* a fitParams call has just failed at a key other than the first, after
\* fitting the curve of every key before it, and no table is cached
C24_Witness ==
    /\ cret.call = "fitParams"
    /\ cf.state = "constructed"
    /\ IsRaise(cret.out)
    /\ cf.fitparams = None
    /\ cret.built # {}
    /\ cret.built = DOMAIN cf.hillcurves
    /\ keys_of(cf)[1] \in cret.built
    /\ \E i \in DOMAIN keys_of(cf) : keys_of(cf)[i] \notin DOMAIN cf.hillcurves

-----------------------------------------------------------------------------
(* Claims about the range of ic50 (specification SpecIC50)                  *)

\* C25: every number ic50 returns, with either method and whatever the
\* fitted parameters, is a number of the closed range from the smallest to
\* the largest measured concentration.
C25_Ic50WithinRange ==
    (Called("ic50") /\ IsValue(hret.out)) =>
        /\ ~IsNaN(hret.out.val)
        /\ FLe(Num(hc.cs[1]), hret.out.val)
        /\ FLe(hret.out.val, Num(Last(hc.cs)))

\* ic50('bound') returned the largest concentration for a curve whose
\* algebraic IC50 is a finite number above the measured range
C25_Witness ==
    /\ CalledWith("ic50", "bound")
    /\ IsValue(hret.out)
    /\ Crosses(hc)
    /\ AlgebraicIC50(hc)[2] # 0
    /\ FLt(Num(Last(hc.cs)), AlgebraicIC50(hc))
    /\ hret.out.val = Num(Last(hc.cs))
    /\ hc.cs[1] < Last(hc.cs)
====
